---- MODULE Spec2Model ----
(***************************************************************************)
(* vcf2Jaccard.py: a table of genotype cells (one row per site, one column *)
(* per sample) is normalised, split into allele lists, and every pair of   *)
(* samples is reduced to a mean Jaccard similarity, a tally of usable      *)
(* sites and a tally of missing sites, kept in three sample x sample       *)
(* frames that are written out at the end.                                 *)
(*                                                                         *)
(* A text is a sequence of one-character strings.  A cell of the data      *)
(* frame is [str |-> TRUE, text |-> t] for a Python str, and NonStr for a  *)
(* value that is not a str (the float NaN of an empty field, or the number *)
(* of a column that read_csv parsed as numeric).  A number is a record     *)
(* [kind |-> "num", num, den] in lowest terms; "NA" is the script's marker *)
(* for an undefined value and "unset" the NaN of a frame cell never        *)
(* assigned.                                                               *)
(***************************************************************************)
EXTENDS Integers, Sequences, FiniteSets, TLC

VARIABLES columns, data, data3, sample_names, sample_combo, k, js_list,
          jac_sim_df, tally_df, missing_df, files, pc

vars == <<columns, data, data3, sample_names, sample_combo, k, js_list,
          jac_sim_df, tally_df, missing_df, files, pc>>

\* ---------------------------------------------------------------- bounds
MaxSamples == 3
MaxSites == 2
MaxCells == 6
MaxCellLen == 5
MaxAllele == 2

\* ------------------------------------------------------------- utilities
Range(s) == {s[i] : i \in DOMAIN s}

RECURSIVE Gcd(_, _)
Gcd(a, b) == IF b = 0 THEN a ELSE Gcd(b, a % b)

Digits == {"0", "1", "2", "3", "4", "5", "6", "7", "8", "9"}

DigitChars == <<"0", "1", "2", "3", "4", "5", "6", "7", "8", "9">>

\* ---------------------------------------------------------------- values
NonStr == [str |-> FALSE, text |-> <<>>]

Str(t) == [str |-> TRUE, text |-> t]

NA == [kind |-> "NA", num |-> 0, den |-> 1]

Unset == [kind |-> "unset", num |-> 0, den |-> 1]

\* the number n/d, d > 0
Frac(n, d) ==
    LET g == Gcd(n, d)
    IN  [kind |-> "num", num |-> n \div g, den |-> d \div g]

Int2Val(n) == [kind |-> "num", num |-> n, den |-> 1]

\* ------------------------------------------------------------- read_csv
\* a field that the reader parses as a number: digits with at most one "."
IsNumericText(t) ==
    /\ \A i \in DOMAIN t : t[i] \in Digits \cup {"."}
    /\ \E i \in DOMAIN t : t[i] \in Digits
    /\ Cardinality({i \in DOMAIN t : t[i] = "."}) <= 1

\* one column of the file as the reader types it: an empty field is NaN, a
\* column of numbers (and empty fields) holds numbers, any other column
\* holds its fields as str
read_column(texts) ==
    LET numeric == \A i \in DOMAIN texts :
                       texts[i] = <<>> \/ IsNumericText(texts[i])
    IN  [i \in DOMAIN texts |->
            IF texts[i] = <<>> \/ numeric THEN NonStr ELSE Str(texts[i])]

read_csv(table) == [c \in DOMAIN table |-> read_column(table[c])]

\* ------------------------------------------------- normalisation (52-54)
\* the three patterns: one character of `a`, a "/", one character of `c`
pat_both == [a |-> {"."}, c |-> {"."}]

pat_second == [a |-> Digits, c |-> {"."}]

pat_first == [a |-> {"."}, c |-> Digits]

repl_both == <<"9", "/", "9">>

repl_second == <<"9", "/", "0">>

repl_first == <<"0", "/", "9">>

\* re.sub: leftmost, non-overlapping matches, each replaced by repl
RECURSIVE re_sub(_, _, _)
re_sub(pat, repl, t) ==
    IF Len(t) < 3 THEN t
    ELSE IF t[1] \in pat.a /\ t[2] = "/" /\ t[3] \in pat.c
         THEN repl \o re_sub(pat, repl, SubSeq(t, 4, Len(t)))
         ELSE <<t[1]>> \o re_sub(pat, repl, Tail(t))

\* DataFrame.replace(regex=True) on one cell: only str cells are rewritten
replace_cell(cell, pat, repl) ==
    IF cell.str THEN Str(re_sub(pat, repl, cell.text)) ELSE cell

replace_both(cell) == replace_cell(cell, pat_both, repl_both)

\* a normalisation without the 'x/.' case
replace_second_skipped(cell) == cell

replace_second(cell) == replace_cell(cell, pat_second, repl_second)

replace_first(cell) == replace_cell(cell, pat_first, repl_first)

normalise(cell) == replace_first(replace_second(replace_both(cell)))

\* ------------------------------------------------------- splitting (58-62)
FirstIndex(t, sep) ==
    IF \E i \in DOMAIN t : t[i] = sep
    THEN CHOOSE i \in DOMAIN t :
             t[i] = sep /\ \A j \in 1..(i - 1) : t[j] # sep
    ELSE 0

\* str.split(sep): the pieces between the separators, empty pieces kept
RECURSIVE split(_, _)
split(t, sep) ==
    LET i == FirstIndex(t, sep)
    IN  IF i = 0 THEN <<t>>
        ELSE <<SubSeq(t, 1, i - 1)>> \o split(SubSeq(t, i + 1, Len(t)), sep)

\* x.split(':')[0]
format_colon(t) == split(t, ":")[1]

\* x.split('/')
format_slash(t) == split(t, "/")

\* the allele list of one str cell
parse_cell(cell) == format_slash(format_colon(normalise(cell).text))

\* applymap calls x.split on every cell: a cell that is not a str raises
applymap_raises(frame) ==
    \E c \in DOMAIN frame : \E i \in DOMAIN frame[c] : ~frame[c][i].str

parse_frame(frame) ==
    [c \in DOMAIN frame |-> [i \in DOMAIN frame[c] |-> parse_cell(frame[c][i])]]

\* ------------------------------------------------- aggregation (66-117)
\* a similarity over the lists as they stand, a repeated allele counted twice
jaccard_similarity_lists(list1, list2) ==
    IF <<"9">> \in Range(list1) \/ <<"9">> \in Range(list2)
    THEN NA
    ELSE LET inter == Cardinality(Range(list1) \cap Range(list2))
         IN  Frac(inter, Len(list1) + Len(list2) - inter)

jaccard_similarity(list1, list2) ==
    IF <<"9">> \in Range(list1) \/ <<"9">> \in Range(list2)
    THEN NA
    ELSE LET inter == Cardinality(Range(list1) \cap Range(list2))
             union == Cardinality(Range(list1) \cup Range(list2))
         IN  Frac(inter, union)

remove_NA_from_list(list) == SelectSeq(list, LAMBDA e : e # NA)

\* a loop over range(1, len(list1)): the first site is skipped
js_list_of_from_second(list1, list2) ==
    [i \in 1..(Len(list1) - 1) |->
        jaccard_similarity(list1[i + 1], list2[i + 1])]

\* the js_list of one pair: one value per row index of the first series
js_list_of(list1, list2) ==
    [i \in 1..Len(list1) |-> jaccard_similarity(list1[i], list2[i])]

RECURSIVE SumOf(_)
SumOf(list) ==
    IF list = <<>> THEN Frac(0, 1)
    ELSE LET h == Head(list)
             r == SumOf(Tail(list))
         IN  Frac(h.num * r.den + r.num * h.den, h.den * r.den)

\* a sum in place of the mean
np_mean_sum(list) == SumOf(list)

\* np.mean of a non-empty list of numbers
np_mean(list) ==
    LET s == SumOf(list)
    IN  Frac(s.num, s.den * Len(list))

\* an empty list averaged to 0
js_mean_of_zero(new_list) ==
    IF Len(new_list) = 0 THEN Int2Val(0) ELSE np_mean(new_list)

js_mean_of(new_list) ==
    IF Len(new_list) = 0 THEN NA ELSE np_mean(new_list)

missing_of(list, new_list) == Len(list) - Len(new_list)

\* itertools.product(names, names) without the diagonal: both orders
combinations_ordered(names) ==
    LET n == Len(names)
        all == [m \in 1..(n * n) |->
                   <<names[((m - 1) \div n) + 1], names[((m - 1) % n) + 1]>>]
    IN  SelectSeq(all, LAMBDA p : p[1] # p[2])

\* itertools.combinations(names, 2), as a list
RECURSIVE combinations(_)
combinations(names) ==
    IF Len(names) < 2 THEN <<>>
    ELSE [j \in 1..(Len(names) - 1) |-> <<names[1], names[j + 1]>>]
             \o combinations(Tail(names))

\* pd.DataFrame(index=names, columns=names): every cell NaN
empty_frame(names) ==
    [index |-> names, columns |-> names,
     at |-> [p \in Range(names) \X Range(names) |-> Unset]]

\* an assignment that fills the mirrored cell as well
loc_set_mirrored(frame, row, col, value) ==
    [frame EXCEPT !.at[<<row, col>>] = value, !.at[<<col, row>>] = value]

\* frame.loc[row, col] = value
loc_set(frame, row, col, value) ==
    [frame EXCEPT !.at[<<row, col>>] = value]

\* the writes reached after the first iteration of the loop
loop_done_after_one == k = Len(sample_combo) \/ k >= 1

\* the condition under which the for loop over sample_combo has ended
loop_done == k = Len(sample_combo)

outfile == "Jaccob_sim_means.csv"

\* --------------------------------------------------------------- actions
\* lines 52-93: normalise, split, name the samples, create the frames
Parse ==
    /\ pc = "start"
    /\ ~applymap_raises(data)
    /\ data3' = parse_frame(data)
    /\ sample_names' = columns
    /\ sample_combo' = combinations(columns)
    /\ jac_sim_df' = empty_frame(columns)
    /\ tally_df' = empty_frame(columns)
    /\ missing_df' = empty_frame(columns)
    /\ pc' = "loop"
    /\ UNCHANGED <<columns, data, k, js_list, files>>

\* line 59: a cell without a split method raises, and the run ends
ParseError ==
    /\ pc = "start"
    /\ applymap_raises(data)
    /\ pc' = "error"
    /\ UNCHANGED <<columns, data, data3, sample_names, sample_combo, k,
                   js_list, jac_sim_df, tally_df, missing_df, files>>

\* lines 95-117: one iteration of the loop over sample_combo
ProcessPair ==
    /\ pc = "loop"
    /\ ~loop_done
    /\ LET compare == sample_combo[k + 1]
           col1 == compare[1]
           col2 == compare[2]
           list1 == data3[col1]
           list2 == data3[col2]
           list == js_list_of(list1, list2)
           new_list == remove_NA_from_list(list)
       IN  /\ js_list' = list
           /\ jac_sim_df' = loc_set(jac_sim_df, col1, col2, js_mean_of(new_list))
           /\ tally_df' = loc_set(tally_df, col1, col2, Int2Val(Len(new_list)))
           /\ missing_df' = loc_set(missing_df, col1, col2,
                                    Int2Val(missing_of(list, new_list)))
    /\ k' = k + 1
    /\ UNCHANGED <<columns, data, data3, sample_names, sample_combo, files, pc>>

\* line 120
WriteJac ==
    /\ pc = "loop"
    /\ loop_done
    /\ files' = Append(files, [name |-> outfile, frame |-> jac_sim_df])
    /\ pc' = "tally"
    /\ UNCHANGED <<columns, data, data3, sample_names, sample_combo, k,
                   js_list, jac_sim_df, tally_df, missing_df>>

\* line 121
WriteTally ==
    /\ pc = "tally"
    /\ files' = Append(files, [name |-> "SNP_tally.csv", frame |-> tally_df])
    /\ pc' = "missing"
    /\ UNCHANGED <<columns, data, data3, sample_names, sample_combo, k,
                   js_list, jac_sim_df, tally_df, missing_df>>

\* lines 122-127
WriteMissing ==
    /\ pc = "missing"
    /\ files' = Append(files, [name |-> "missing_SNP.csv", frame |-> missing_df])
    /\ pc' = "done"
    /\ UNCHANGED <<columns, data, data3, sample_names, sample_combo, k,
                   js_list, jac_sim_df, tally_df, missing_df>>

Next ==
    \/ Parse
    \/ ParseError
    \/ ProcessPair
    \/ WriteJac
    \/ WriteTally
    \/ WriteMissing

\* ---------------------------------------------------------------- inputs
SampleIds == <<"S1", "S2", "S3", "S4", "S5">>

Orders(names) ==
    {o \in [1..Cardinality(names) -> names] :
        \A i, j \in DOMAIN o : i # j => o[i] # o[j]}

\* the state once read_csv (44) and the column slice (46) have run on
\* `table`, whose sample columns stand in the order `cols`
Loaded(cols, table) ==
    /\ columns = cols
    /\ data = read_csv(table)
    /\ data3 = <<>>
    /\ sample_names = <<>>
    /\ sample_combo = <<>>
    /\ k = 0
    /\ js_list = <<>>
    /\ jac_sim_df = empty_frame(<<>>)
    /\ tally_df = empty_frame(<<>>)
    /\ missing_df = empty_frame(<<>>)
    /\ files = <<>>
    /\ pc = "start"

T00 == <<"0", "/", "0", ":", "5">>

T11 == <<"1", "/", "1", ":", "5">>

T01 == <<"0", "/", "1", ":", "5">>

TMissing == <<".", "/", ".", ":", "0">>

TableTexts == {T00, T11, T01, TMissing, <<>>}

\* every table of at most MaxSamples samples, MaxSites sites and MaxCells
\* cells over TableTexts, its columns in any order
Init ==
    \E n \in 1..MaxSamples : \E s \in 0..MaxSites :
        /\ n * s <= MaxCells
        /\ LET names == {SampleIds[i] : i \in 1..n}
           IN  \E cols \in Orders(names) :
                   \E table \in [names -> [1..s -> TableTexts]] :
                       Loaded(cols, table)

Spec == Init /\ [][Next]_vars

\* a table of two samples whose first row holds, for S1, any text of at most
\* MaxCellLen characters over CellAlphabet and, for S2, a heterozygous call;
\* a second row of two called genotypes may follow
CellAlphabet == {".", "0", "1", "9", "/", ":"}

CellTexts == UNION {[1..n -> CellAlphabet] : n \in 0..MaxCellLen}

InitCell ==
    \E cols \in Orders({"S1", "S2"}) : \E t \in CellTexts :
        \E more \in {<<>>, <<[S1 |-> T11, S2 |-> T01]>>} :
            Loaded(cols, [c \in {"S1", "S2"} |->
                             <<IF c = "S1" THEN t ELSE T01>>
                                 \o [i \in DOMAIN more |-> more[i][c]]])

SpecCell == InitCell /\ [][Next]_vars

\* a one-row table of two samples, each cell a call a/b of two allele
\* indices of at most MaxAllele, or an empty field
CallText(a, b) == <<DigitChars[a + 1], "/", DigitChars[b + 1], ":", "5">>

CallTexts == {CallText(a, b) : a, b \in 0..MaxAllele} \cup {<<>>}

InitJac ==
    \E cols \in Orders({"S1", "S2"}) :
        \E table \in [{"S1", "S2"} -> [1..1 -> CallTexts]] :
            Loaded(cols, table)

SpecJac == InitJac /\ [][Next]_vars

\* ------------------------------------------------- vocabulary of the claims
Started == pc \notin {"start", "error"}

NSamples == Len(columns)

NSites == IF NSamples = 0 THEN 0 ELSE Len(data[columns[1]])

\* the position of a sample in the input column order
Pos(name) == CHOOSE i \in DOMAIN columns : columns[i] = name

\* the pairs the loop has processed so far
Processed == {sample_combo[m] : m \in 1..k}

Frames == {jac_sim_df, tally_df, missing_df}

\* the raw allele field of a cell: its text up to the first ":"
Field(cell) ==
    LET i == FirstIndex(cell.text, ":")
    IN  IF i = 0 THEN cell.text ELSE SubSeq(cell.text, 1, i - 1)

\* './.', 'x/.' or './x' with x a digit
HasMissingMarker(cell) ==
    /\ cell.str
    /\ LET f == Field(cell)
       IN  /\ Len(f) = 3
           /\ f[2] = "/"
           /\ \/ f[1] = "." /\ f[3] \in Digits \cup {"."}
              \/ f[1] \in Digits /\ f[3] = "."

\* 'x/y' with x and y digits
IsTwoDigits(cell) ==
    /\ cell.str
    /\ LET f == Field(cell)
       IN  Len(f) = 3 /\ f[1] \in Digits /\ f[2] = "/" /\ f[3] \in Digits

\* '<token>/<token>' before the first ":", both tokens non-empty
IsWellShaped(cell) ==
    /\ cell.str
    /\ LET f == Field(cell)
       IN  \E i \in 2..(Len(f) - 1) :
               f[i] = "/" /\ \A j \in DOMAIN f : j # i => f[j] # "/"

\* a series without its i-th site
WithoutSite(series, i) ==
    SubSeq(series, 1, i - 1) \o SubSeq(series, i + 1, Len(series))

\* sum of the numbers of `list` at the indices in `sites`, as <<num, den>>
RECURSIVE SumAt(_, _)
SumAt(list, sites) ==
    IF sites = {} THEN <<0, 1>>
    ELSE LET i == CHOOSE x \in sites : TRUE
             r == SumAt(list, sites \ {i})
         IN  <<r[1] * list[i].den + list[i].num * r[2], r[2] * list[i].den>>

\* ------------------------------------------------------------------- C1
\* the number of distinct alleles of <<a, b>> that also occur in <<c, d>>
InterOf(a, b, c, d) ==
    (IF a \in {c, d} THEN 1 ELSE 0) + (IF b # a /\ b \in {c, d} THEN 1 ELSE 0)

UnionOf(a, b, c, d) ==
    (IF a = b THEN 1 ELSE 2) + (IF c = d THEN 1 ELSE 2) - InterOf(a, b, c, d)

Call(a, b) == <<<<DigitChars[a + 1]>>, <<DigitChars[b + 1]>>>>

\* C1: once the pair of a one-site table of calls (a,b), (c,d) without the
\* sentinel is processed, its similarity is |{a,b} & {c,d}| / |{a,b} u {c,d}|
\* with a union of at least one: (0,0) vs (0,0) is 1, (0,0) vs (1,1) is 0,
\* (0,1) vs (1,2) is 1/3, and swapping the calls or the alleles inside a
\* call gives the same value.
C1_JaccardOfSets ==
    (/\ Started
     /\ k = 1
     /\ <<"9">> \notin Range(data3[sample_combo[1][1]][1])
     /\ <<"9">> \notin Range(data3[sample_combo[1][2]][1])) =>
        LET l1 == data3[sample_combo[1][1]][1]
            l2 == data3[sample_combo[1][2]][1]
            v == js_list[1]
            i == InterOf(l1[1], l1[2], l2[1], l2[2])
            u == UnionOf(l1[1], l1[2], l2[1], l2[2])
        IN  /\ v.kind = "num"
            /\ u >= 1
            /\ v.num * u = i * v.den
            /\ v = jaccard_similarity(l2, l1)
            /\ v = jaccard_similarity(<<l1[2], l1[1]>>, l2)
            /\ v = jaccard_similarity(l1, <<l2[2], l2[1]>>)
            /\ (l1 = Call(0, 0) /\ l2 = Call(0, 0)) => v = Int2Val(1)
            /\ (l1 = Call(0, 0) /\ l2 = Call(1, 1)) => v = Int2Val(0)
            /\ (l1 = Call(0, 1) /\ l2 = Call(1, 2)) =>
                   v = [kind |-> "num", num |-> 1, den |-> 3]

C1_Witness ==
    /\ Started
    /\ k = 1
    /\ data3[sample_combo[1][1]][1] = Call(0, 1)
    /\ data3[sample_combo[1][2]][1] = Call(1, 2)
    /\ js_list[1] = [kind |-> "num", num |-> 1, den |-> 3]

\* ------------------------------------------------------------------- C2
\* C2: for every processed pair and every site where the raw cell of either
\* sample holds './.', 'x/.' or './x', the site's similarity is NA, and the
\* pair's mean and usable tally are those of the two series without that
\* site while its missing tally is one more.
C2_MarkerMeansMissing ==
    Started =>
        \A m \in 1..k :
            LET c1 == sample_combo[m][1]
                c2 == sample_combo[m][2]
            IN  \A i \in 1..NSites :
                    (HasMissingMarker(data[c1][i]) \/ HasMissingMarker(data[c2][i]))
                    =>
                    LET here == jaccard_similarity(data3[c1][i], data3[c2][i])
                        rest == js_list_of(WithoutSite(data3[c1], i),
                                           WithoutSite(data3[c2], i))
                        used == remove_NA_from_list(rest)
                    IN  /\ here = NA
                        /\ m = k => js_list[i] = NA
                        /\ jac_sim_df.at[<<c1, c2>>] = js_mean_of(used)
                        /\ tally_df.at[<<c1, c2>>] = Int2Val(Len(used))
                        /\ missing_df.at[<<c1, c2>>]
                               = Int2Val(Len(rest) - Len(used) + 1)

C2_Witness ==
    /\ pc = "done"
    /\ NSites = 2
    /\ \E c \in Range(columns) :
           /\ Field(data[c][1]) = <<"0", "/", ".">>
           /\ data3[c][1] = <<<<"9">>, <<"0">>>>
    /\ js_list = <<NA, [kind |-> "num", num |-> 1, den |-> 2]>>
    /\ missing_df.at[sample_combo[1]] = Int2Val(1)
    /\ tally_df.at[sample_combo[1]] = Int2Val(1)

\* ------------------------------------------------------------------- C3
\* the sites of a pair where neither call holds the sentinel
UsableSites(c1, c2) ==
    {i \in 1..NSites :
        <<"9">> \notin Range(data3[c1][i]) \cup Range(data3[c2][i])}

\* C3: for every processed pair the mean cell is the sum of the similarities
\* of the pair's usable sites, each site of one series set against the site
\* of the same row of the other, divided by their number; with no usable
\* site the cell is NA, the usable tally 0 and the missing tally S; the mean
\* file holds the same frame.
C3_MeanOverUsableSites ==
    Started =>
        /\ \A p \in Processed :
               LET c1 == p[1]
                   c2 == p[2]
                   U == UsableSites(c1, c2)
                   each == [i \in 1..NSites |->
                               jaccard_similarity(data3[c1][i], data3[c2][i])]
                   sum == SumAt(each, U)
                   mean == jac_sim_df.at[p]
               IN  IF U = {}
                   THEN /\ mean = NA
                        /\ tally_df.at[p] = Int2Val(0)
                        /\ missing_df.at[p] = Int2Val(NSites)
                   ELSE /\ mean.kind = "num"
                        /\ mean.num * sum[2] * Cardinality(U) = sum[1] * mean.den
        /\ \A f \in Range(files) : f.name = outfile => f.frame = jac_sim_df

C3_Witness ==
    /\ pc = "done"
    /\ NSites = 2
    /\ \E p, q \in Processed :
           /\ UsableSites(p[1], p[2]) = {}
           /\ jac_sim_df.at[p] = NA
           /\ UsableSites(q[1], q[2]) = {1, 2}
           /\ jac_sim_df.at[q] = [kind |-> "num", num |-> 1, den |-> 4]

\* ------------------------------------------------------------------- C4
\* C4: for every processed pair the usable tally and the missing tally are
\* numbers that add up to S, the number of rows of the table.
C4_TalliesAddUp ==
    Started =>
        \A p \in Processed :
            /\ tally_df.at[p].kind = "num"
            /\ missing_df.at[p].kind = "num"
            /\ tally_df.at[p].den = 1
            /\ missing_df.at[p].den = 1
            /\ tally_df.at[p].num + missing_df.at[p].num = NSites

C4_Witness ==
    /\ pc = "done"
    /\ NSites = 2
    /\ \E p, q \in Processed :
           /\ tally_df.at[p] = Int2Val(1)
           /\ missing_df.at[p] = Int2Val(1)
           /\ tally_df.at[q] = Int2Val(0)
           /\ missing_df.at[q] = Int2Val(2)

\* ------------------------------------------------------------------- C5
\* S1 = [(0,0),(1,1)], S2 = [(0,0),missing], S3 = [(1,1),(0,1)], in this
\* column order
IsScenario ==
    /\ columns = <<"S1", "S2", "S3">>
    /\ data = [c \in {"S1", "S2", "S3"} |->
                  IF c = "S1" THEN <<Str(T00), Str(T11)>>
                  ELSE IF c = "S2" THEN <<Str(T00), Str(TMissing)>>
                  ELSE <<Str(T11), Str(T01)>>]

Half == [kind |-> "num", num |-> 1, den |-> 2]

Quarter == [kind |-> "num", num |-> 1, den |-> 4]

ScenarioOutcome(sims13, mean13, mean23, usable23, missing23) ==
    /\ (IsScenario /\ Started /\ k = 2) => js_list = sims13
    /\ (IsScenario /\ pc = "done") =>
           /\ jac_sim_df.at[<<"S1", "S2">>] = Int2Val(1)
           /\ tally_df.at[<<"S1", "S2">>] = Int2Val(1)
           /\ missing_df.at[<<"S1", "S2">>] = Int2Val(1)
           /\ jac_sim_df.at[<<"S1", "S3">>] = mean13
           /\ tally_df.at[<<"S1", "S3">>] = Int2Val(2)
           /\ missing_df.at[<<"S1", "S3">>] = Int2Val(0)
           /\ jac_sim_df.at[<<"S2", "S3">>] = mean23
           /\ tally_df.at[<<"S2", "S3">>] = Int2Val(usable23)
           /\ missing_df.at[<<"S2", "S3">>] = Int2Val(missing23)

\* C5 as stated: on the scenario, pair (S1,S2) has mean 1, usable 1, missing
\* 1; pair (S1,S3) has site similarities 0 and 1, mean 1/2, usable 2,
\* missing 0; pair (S2,S3) has mean NA, usable 0, missing 2.
C5_ScenarioAsStated ==
    ScenarioOutcome(<<Int2Val(0), Int2Val(1)>>, Half, NA, 0, 2)

\* C5 amended: on the scenario, pair (S1,S2) has mean 1, usable 1, missing
\* 1; pair (S1,S3) has site similarities 0 and 1/2 (the sets {1} and {0,1}),
\* mean 1/4, usable 2, missing 0; pair (S2,S3), whose first site (0,0) vs
\* (1,1) is usable with similarity 0, has mean 0, usable 1, missing 1.
C5_ScenarioAmended ==
    ScenarioOutcome(<<Int2Val(0), Half>>, Quarter, Int2Val(0), 1, 1)

C5_Witness ==
    /\ IsScenario
    /\ pc = "done"
    /\ jac_sim_df.at[<<"S1", "S3">>] = Quarter
    /\ jac_sim_df.at[<<"S2", "S3">>] = Int2Val(0)
    /\ missing_df.at[<<"S2", "S3">>] = Int2Val(1)

\* ------------------------------------------------------------------- C6
\* C6: from their creation on, each of the three frames, and each frame
\* written to a file, is labelled in the input column order on both axes and
\* has a value only in cells whose row sample stands before its column
\* sample in that order.
UpperTriangleOnly(frame) ==
    /\ frame.index = columns
    /\ frame.columns = columns
    /\ \A r, c \in Range(columns) :
           frame.at[<<r, c>>] # Unset => Pos(r) < Pos(c)

C6_UpperTriangle ==
    Started =>
        /\ \A frame \in Frames : UpperTriangleOnly(frame)
        /\ \A f \in Range(files) : UpperTriangleOnly(f.frame)

C6_Witness ==
    /\ pc = "done"
    /\ columns = <<"S3", "S1", "S2">>
    /\ \A frame \in Frames :
           /\ frame.at[<<"S3", "S1">>] # Unset
           /\ frame.at[<<"S1", "S3">>] = Unset
           /\ frame.at[<<"S1", "S1">>] = Unset

\* ------------------------------------------------------------------- C7
\* C7: a cell 'x/y' of two digits is split into exactly <<x, y>>, and a site
\* where both cells of a processed pair are such cells is not missing.
C7_SentinelIsNoAllele ==
    Started =>
        /\ \A c \in Range(columns) : \A i \in 1..NSites :
               IsTwoDigits(data[c][i]) =>
                   data3[c][i] = <<<<Field(data[c][i])[1]>>,
                                   <<Field(data[c][i])[3]>>>>
        /\ \A p \in Processed : \A i \in 1..NSites :
               (IsTwoDigits(data[p[1]][i]) /\ IsTwoDigits(data[p[2]][i])) =>
                   jaccard_similarity(data3[p[1]][i], data3[p[2]][i]) # NA

\* ------------------------------------------------------------------- C8
\* C8: a table with a cell that is not of the shape '<token>/<token>:<rest>'
\* ends in the error state and is never aggregated.
C8_MalformedCellAborts ==
    (\E c \in Range(columns) : \E i \in 1..NSites : ~IsWellShaped(data[c][i]))
        => pc \in {"start", "error"}

\* ------------------------------------------------------------------- C9
AllPairs ==
    {<<columns[q[1]], columns[q[2]]>> :
        q \in {q \in (DOMAIN columns) \X (DOMAIN columns) : q[1] < q[2]}}

OutputNames == <<outfile, "SNP_tally.csv", "missing_SNP.csv">>

\* C9: a run in the error state has written no file; a file is written only
\* once every pair has been processed, so that every cell of a pair holds a
\* value in each frame; the files are written in the order mean, usable
\* tally, missing tally, each at most once, each holding its frame.
C9_WritesAfterAllWork ==
    /\ pc = "error" => files = <<>>
    /\ files # <<>> =>
           /\ Started
           /\ Processed = AllPairs
           /\ \A frame \in Frames : \A p \in AllPairs : frame.at[p] # Unset
    /\ Len(files) <= 3
    /\ \A i \in DOMAIN files : files[i].name = OutputNames[i]
    /\ \A i \in DOMAIN files :
           files[i].frame = <<jac_sim_df, tally_df, missing_df>>[i]
    /\ pc = "done" => Len(files) = 3

C9_Witness ==
    /\ pc = "error"
    /\ NSamples = 3
    /\ NSites = 2
    /\ files = <<>>
    /\ \E c \in Range(columns) : data[c][1].str /\ ~data[c][2].str

\* ------------------------------------------------------------------ C10
\* C10: the loop's list holds every pair of two distinct samples exactly
\* once, the earlier sample of the column order first, C(N,2) pairs in all;
\* the pairs processed so far are distinct and are exactly the cells that
\* hold a value, and each such cell holds the result of its own two series,
\* whatever was processed before or after it.
C10_EachPairOnce ==
    Started =>
        /\ Len(sample_combo) * 2 = NSamples * (NSamples - 1)
        /\ \A i, j \in DOMAIN columns :
               Cardinality({m \in DOMAIN sample_combo :
                               sample_combo[m] = <<columns[i], columns[j]>>})
                   = IF i < j THEN 1 ELSE 0
        /\ k <= Len(sample_combo)
        /\ Cardinality(Processed) = k
        /\ \A frame \in Frames : \A r, c \in Range(columns) :
               frame.at[<<r, c>>] # Unset <=> <<r, c>> \in Processed
        /\ \A p \in Processed :
               LET list == js_list_of(data3[p[1]], data3[p[2]])
                   used == remove_NA_from_list(list)
               IN  /\ jac_sim_df.at[p] = js_mean_of(used)
                   /\ tally_df.at[p] = Int2Val(Len(used))
                   /\ missing_df.at[p] = Int2Val(Len(list) - Len(used))
        /\ pc = "done" => Processed = AllPairs

C10_Witness ==
    /\ pc = "done"
    /\ NSamples = 3
    /\ k = 3
    /\ sample_combo = <<<<"S2", "S3">>, <<"S2", "S1">>, <<"S3", "S1">>>>

====
